---- MODULE Spec2Model ----
(***************************************************************************)
(* A model of lab3_6.py: the Note and Notebook classes, the module-wide    *)
(* id counter last_id, and the Menu shell that drives one Notebook.        *)
(*                                                                         *)
(* Python values are modelled as follows.  A str is a sequence of          *)
(* one-character strings (<<"a","b">> is 'ab').  A value whose type        *)
(* matters to the code carries a type tag: [t |-> "str", v |-> text],      *)
(* [t |-> "list", items |-> sequence], [t |-> "int", n |-> number],        *)
(* [t |-> "bool", b |-> boolean], [t |-> "None"].                          *)
(* A Note is the record [id, memo, tags]; creation_date is set once at     *)
(* line 28 and never read, so it is left out.                              *)
(***************************************************************************)
EXTENDS Integers, Sequences, FiniteSets, TLC

VARIABLES last_id, notebooks, loose, created, op, pc, choice, out

vars == <<last_id, notebooks, loose, created, op, pc, choice, out>>

\* The most notes the model lets one process construct.
MaxNotes == 2

-----------------------------------------------------------------------------
(* Python values *)

PyStrVal(s) == [t |-> "str", v |-> s]

PyListVal(l) == [t |-> "list", items |-> l]

PyIntVal(n) == [t |-> "int", n |-> n]

PyBoolVal(b) == [t |-> "bool", b |-> b]

None == [t |-> "None"]

Digits == <<"0", "1", "2", "3", "4", "5", "6", "7", "8", "9">>

\* str(n) of a non-negative int: its decimal digits.
RECURSIVE IntToStr(_)
IntToStr(n) ==
    IF n < 10 THEN <<Digits[n + 1]>>
    ELSE IntToStr(n \div 10) \o <<Digits[(n % 10) + 1]>>

\* str(x): the decimal digits of an int, a str itself.
PyStr(x) == IF x.t = "int" THEN IntToStr(x.n) ELSE x.v

\* sub in s, both str: s holds sub at some offset.
StrContains(s, sub) ==
    \E i \in 0..(Len(s) - Len(sub)) : SubSeq(s, i + 1, i + Len(sub)) = sub

\* x in c: substring search when c is a str, element equality when c is a list.
PyIn(x, c) ==
    IF c.t = "str" THEN StrContains(c.v, x)
    ELSE \E i \in 1..Len(c.items) : c.items[i] = x

-----------------------------------------------------------------------------
(* Inputs *)

\* The two Notebook objects of the process: Menu.notebook and another one.
NotebookIds == {"menu", "other"}

\* Memo texts given to new_note and modify_memo: '', 'a', 'ab'.
Memos == {<<>>, <<"a">>, <<"a", "b">>}

\* Tags given to new_note and modify_tags: '' (the default), 'Ab', ['ab'].
TagValues == {PyStrVal(<<>>), PyStrVal(<<"A", "b">>), PyListVal(<< <<"a", "b">> >>)}

\* Filter texts given to match and search: '', 'a', 'A', 'b', 'ab', 'ba'.
Filters == {<<>>, <<"a">>, <<"A">>, <<"b">>, <<"a", "b">>, <<"b", "a">>}

\* Texts typed at the "Enter a note id: " prompt: '1', '2', '01', 'x', ''.
IdTexts == {<<"1">>, <<"2">>, <<"0", "1">>, <<"x">>, <<>>}

\* note_id arguments of the Notebook methods: the ints 1, 2 and the texts
\* '1', '01', 'x'.
NoteIds ==
    {PyIntVal(n) : n \in {1, 2}}
        \cup {PyStrVal(<<"1">>), PyStrVal(<<"0", "1">>), PyStrVal(<<"x">>)}

\* Lines typed at "Enter an option: ": the five choices, '6', '' and '11'.
ChoiceInputs ==
    {<<"1">>, <<"2">>, <<"3">>, <<"4">>, <<"5">>, <<"6">>, <<>>, <<"1", "1">>}

\* Texts typed at the "Enter tags: " prompt: '', 'Ab'.
TagTexts == {<<>>, <<"A", "b">>}

-----------------------------------------------------------------------------
(* class Note *)

\* The default of the tags parameter of Note.__init__ and Notebook.new_note.
DefaultTags == PyStrVal(<<>>)

\* Mutant of NoteInit: the id is taken before the counter is incremented.
NoteInitAssignFirst(memo, tags, lid) ==
    [note |-> [id |-> lid, memo |-> memo, tags |-> tags],
     last_id |-> lid + 1]

\* Mutant of NoteInit: the increment is lost (a local last_id, no global).
NoteInitNoIncrement(memo, tags, lid) ==
    [note |-> [id |-> lid + 1, memo |-> memo, tags |-> tags],
     last_id |-> lid]

\* Mutant of NoteInit: the tags argument is not stored, the note keeps ''.
NoteInitDropsTags(memo, tags, lid) ==
    [note |-> [id |-> lid + 1, memo |-> memo, tags |-> PyStrVal(<<>>)],
     last_id |-> lid + 1]

\* Mutant of NoteInit: the counter is incremented a second time after the id
\* is taken.
NoteInitDoubleIncrement(memo, tags, lid) ==
    [note |-> [id |-> lid + 1, memo |-> memo, tags |-> tags],
     last_id |-> lid + 2]

\* Note.__init__ with the counter at lid: the new note and the counter after it.
NoteInit(memo, tags, lid) ==
    [note |-> [id |-> lid + 1, memo |-> memo, tags |-> tags],
     last_id |-> lid + 1]

\* Lower-casing, for the mutant below.
LowerChar(c) == CASE c = "A" -> "a" [] c = "B" -> "b" [] OTHER -> c

Lower(s) == [i \in 1..Len(s) |-> LowerChar(s[i])]

\* Mutant of Match: only the tags are tested.
MatchTagsOnly(note, filter) == PyIn(filter, note.tags)

\* Mutant of Match: the comparison ignores case.
MatchIgnoreCase(note, filter) ==
    \/ StrContains(Lower(note.memo), Lower(filter))
    \/ IF note.tags.t = "str"
       THEN StrContains(Lower(note.tags.v), Lower(filter))
       ELSE PyIn(filter, note.tags)

\* Mutant of Match: startswith in place of in.
MatchPrefixOnly(note, filter) ==
    \/ SubSeq(note.memo, 1, Len(filter)) = filter
    \/ PyIn(filter, note.tags)

\* Note.match
Match(note, filter) ==
    StrContains(note.memo, filter) \/ PyIn(filter, note.tags)

-----------------------------------------------------------------------------
(* class Notebook, as functions of its notes list *)

\* Mutant of Search: the matches are collected back to front.
RECURSIVE SearchReversed(_, _)
SearchReversed(notes, filter) ==
    IF notes = <<>> THEN <<>>
    ELSE SearchReversed(Tail(notes), filter)
             \o (IF Match(Head(notes), filter) THEN <<Head(notes)>> ELSE <<>>)

\* Notebook.search: the list comprehension, front to back.
RECURSIVE Search(_, _)
Search(notes, filter) ==
    IF notes = <<>> THEN <<>>
    ELSE (IF Match(Head(notes), filter) THEN <<Head(notes)>> ELSE <<>>)
             \o Search(Tail(notes), filter)

\* Mutant of FindFrom: "in" in place of "==" in the comparison.
RECURSIVE FindFromContains(_, _, _)
FindFromContains(notes, note_id, i) ==
    IF i > Len(notes) THEN 0
    ELSE IF StrContains(IntToStr(notes[i].id), PyStr(note_id)) THEN i
    ELSE FindFromContains(notes, note_id, i + 1)

\* Mutant of FindFrom: note.id == note_id, without the str conversions.
RECURSIVE FindFromTyped(_, _, _)
FindFromTyped(notes, note_id, i) ==
    IF i > Len(notes) THEN 0
    ELSE IF note_id.t = "int" /\ notes[i].id = note_id.n THEN i
    ELSE FindFromTyped(notes, note_id, i + 1)

\* The loop of Notebook._find_note: the index of the first note whose
\* str(id) equals str(note_id), 0 when the loop falls through.
RECURSIVE FindFrom(_, _, _)
FindFrom(notes, note_id, i) ==
    IF i > Len(notes) THEN 0
    ELSE IF IntToStr(notes[i].id) = PyStr(note_id) THEN i
    ELSE FindFrom(notes, note_id, i + 1)

FindIndex(notes, note_id) == FindFrom(notes, note_id, 1)

\* Notebook._find_note: the note, or None.
FindNote(notes, note_id) ==
    IF FindIndex(notes, note_id) = 0 THEN None
    ELSE notes[FindIndex(notes, note_id)]

\* Mutant of ModifyMemo: the "return True" is missing, so the call falls
\* through to "return False".
ModifyMemoFallsThrough(notes, note_id, memo) ==
    IF FindNote(notes, note_id) # None
    THEN [notes |-> [notes EXCEPT ![FindIndex(notes, note_id)].memo = memo],
          ret |-> FALSE]
    ELSE [notes |-> notes, ret |-> FALSE]

\* Mutant of ModifyMemo: the assignment sits in a loop over all the notes.
ModifyMemoEveryNote(notes, note_id, memo) ==
    IF FindNote(notes, note_id) # None
    THEN [notes |-> [i \in 1..Len(notes) |-> [notes[i] EXCEPT !.memo = memo]],
          ret |-> TRUE]
    ELSE [notes |-> notes, ret |-> FALSE]

\* Notebook.modify_memo: the notes list afterwards and the value returned.
ModifyMemo(notes, note_id, memo) ==
    IF FindNote(notes, note_id) # None
    THEN [notes |-> [notes EXCEPT ![FindIndex(notes, note_id)].memo = memo],
          ret |-> TRUE]
    ELSE [notes |-> notes, ret |-> FALSE]

\* Mutant of ModifyTags: the new tags are bound to a local name, the note
\* keeps its old ones.
ModifyTagsStale(notes, note_id, tags) ==
    IF FindNote(notes, note_id) # None
    THEN [notes |-> notes, ret |-> TRUE]
    ELSE [notes |-> notes, ret |-> FALSE]

\* Notebook.modify_tags: the notes list afterwards and the value returned.
ModifyTags(notes, note_id, tags) ==
    IF FindNote(notes, note_id) # None
    THEN [notes |-> [notes EXCEPT ![FindIndex(notes, note_id)].tags = tags],
          ret |-> TRUE]
    ELSE [notes |-> notes, ret |-> FALSE]

-----------------------------------------------------------------------------
(* The library used directly: pc = "lib", no Menu running *)

\* The places a Note object can be held: a position of a Notebook's notes
\* list, or a position among the notes the caller constructed itself.
AllNotes ==
    {<<b, i>> : b \in NotebookIds, i \in 1..MaxNotes + 1} \cup
    {<<"loose", i>> : i \in 1..MaxNotes + 1}

\* The Note object held at place w.
NoteAt(w) == IF w[1] = "loose" THEN loose[w[2]] ELSE notebooks[w[1]][w[2]]

\* Place w holds a Note object.
Live(w) ==
    w[2] <= (IF w[1] = "loose" THEN Len(loose) ELSE Len(notebooks[w[1]]))

Init ==
    /\ last_id = 0
    /\ notebooks = [b \in NotebookIds |-> <<>>]
    /\ loose = <<>>
    /\ created = <<>>
    /\ op = [name |-> "start", ret |-> None]
    /\ pc = "lib"
    /\ choice = <<>>
    /\ out = <<>>

\* Note(memo), tags left at the default '', constructed by the caller and kept
\* outside any Notebook.
construct_note(memo) ==
    /\ pc = "lib"
    /\ last_id < MaxNotes
    /\ loose' = Append(loose, NoteInit(memo, DefaultTags, last_id).note)
    /\ last_id' = NoteInit(memo, DefaultTags, last_id).last_id
    /\ created' = Append(created, NoteInit(memo, DefaultTags, last_id).note.id)
    /\ op' = [name |-> "Note", ret |-> None]
    /\ UNCHANGED <<notebooks, pc, choice, out>>

\* Mutant of new_note: the note is inserted at the front of the list.
new_note_prepends(b, memo, tags) ==
    /\ pc = "lib"
    /\ last_id < MaxNotes
    /\ notebooks' = [notebooks EXCEPT
                        ![b] = <<NoteInit(memo, tags, last_id).note>> \o @]
    /\ last_id' = NoteInit(memo, tags, last_id).last_id
    /\ created' = Append(created, NoteInit(memo, tags, last_id).note.id)
    /\ op' = [name |-> "new_note", ret |-> None]
    /\ UNCHANGED <<loose, pc, choice, out>>

\* Notebook.new_note on notebook b.
new_note(b, memo, tags) ==
    /\ pc = "lib"
    /\ last_id < MaxNotes
    /\ notebooks' = [notebooks EXCEPT
                        ![b] = Append(@, NoteInit(memo, tags, last_id).note)]
    /\ last_id' = NoteInit(memo, tags, last_id).last_id
    /\ created' = Append(created, NoteInit(memo, tags, last_id).note.id)
    /\ op' = [name |-> "new_note", ret |-> None]
    /\ UNCHANGED <<loose, pc, choice, out>>

\* Note.match on the Note object held at place w.
match(w, filter) ==
    /\ pc = "lib"
    /\ Live(w)
    /\ op' = [name |-> "match", ret |-> PyBoolVal(Match(NoteAt(w), filter))]
    /\ UNCHANGED <<last_id, notebooks, loose, created, pc, choice, out>>

\* Notebook.search on notebook b.
search(b, filter) ==
    /\ pc = "lib"
    /\ op' = [name |-> "search",
              ret |-> PyListVal(Search(notebooks[b], filter))]
    /\ UNCHANGED <<last_id, notebooks, loose, created, pc, choice, out>>

\* Notebook._find_note on notebook b.
find_note(b, note_id) ==
    /\ pc = "lib"
    /\ op' = [name |-> "_find_note", ret |-> FindNote(notebooks[b], note_id)]
    /\ UNCHANGED <<last_id, notebooks, loose, created, pc, choice, out>>

\* Notebook.modify_memo on notebook b.
modify_memo(b, note_id, memo) ==
    /\ pc = "lib"
    /\ notebooks' = [notebooks EXCEPT
                        ![b] = ModifyMemo(@, note_id, memo).notes]
    /\ op' = [name |-> "modify_memo",
              ret |-> PyBoolVal(ModifyMemo(notebooks[b], note_id, memo).ret)]
    /\ UNCHANGED <<last_id, loose, created, pc, choice, out>>

\* Notebook.modify_tags on notebook b.
modify_tags(b, note_id, tags) ==
    /\ pc = "lib"
    /\ notebooks' = [notebooks EXCEPT
                        ![b] = ModifyTags(@, note_id, tags).notes]
    /\ op' = [name |-> "modify_tags",
              ret |-> PyBoolVal(ModifyTags(notebooks[b], note_id, tags).ret)]
    /\ UNCHANGED <<last_id, loose, created, pc, choice, out>>

Next ==
    \/ \E memo \in Memos : construct_note(memo)
    \/ \E b \in NotebookIds, memo \in Memos, tags \in TagValues :
           new_note(b, memo, tags)
    \/ \E w \in AllNotes, filter \in Filters : match(w, filter)
    \/ \E b \in NotebookIds, filter \in Filters : search(b, filter)
    \/ \E b \in NotebookIds, note_id \in NoteIds : find_note(b, note_id)
    \/ \E b \in NotebookIds, note_id \in NoteIds, memo \in Memos :
           modify_memo(b, note_id, memo)
    \/ \E b \in NotebookIds, note_id \in NoteIds, tags \in TagValues :
           modify_tags(b, note_id, tags)

Spec == Init /\ [][Next]_vars

-----------------------------------------------------------------------------
(* class Menu.  Its position: "menu" at the top of the loop of run,        *)
(* "dispatch" with the choice read, "terminated" after sys.exit.  out is   *)
(* what the last step printed, one element per print call.  Every input   *)
(* call is answered with a line: standard input being closed (EOFError)    *)
(* or a signal is the environment ending the process, not a step of it.    *)

\* Menu.choices: the dispatch table built in Menu.__init__.
Choices ==
    (<<"1">> :> "show_notes") @@ (<<"2">> :> "search_notes")
        @@ (<<"3">> :> "add_note") @@ (<<"4">> :> "modify_note")
        @@ (<<"5">> :> "quit")

\* Mutant of ChoicesGet: the table is looked up with the first character of
\* the line.
ChoicesGetFirstChar(c) ==
    IF c # <<>> /\ <<c[1]>> \in DOMAIN Choices THEN Choices[<<c[1]>>]
    ELSE "None"

\* self.choices.get(choice): the handler's name, or None.
ChoicesGet(c) == IF c \in DOMAIN Choices THEN Choices[c] ELSE "None"

\* What one print call of show_notes writes for a note: id, tags and memo.
NoteLine(note) ==
    [kind |-> "note", id |-> IntToStr(note.id), tags |-> note.tags,
     memo |-> note.memo]

\* What a print call of a fixed or formatted text writes.
TextLine(text) == [kind |-> "text", text |-> text]

\* Menu.show_notes(notes) on a Notebook holding nbnotes: the lines printed.
\* notes is None or a list value.
\* "not notes" holds for None and for the empty list alike.
ShowNotes(notes, nbnotes) ==
    LET shown == IF notes = None \/ notes.items = <<>> THEN nbnotes
                 ELSE notes.items
    IN  [i \in 1..Len(shown) |-> NoteLine(shown[i])]

\* Mutant of ModifyNote: the "if memo:" and "if tags:" tests are missing.
ModifyNoteNoGuard(notes, id, memo, tags) ==
    LET first == ModifyMemo(notes, PyStrVal(id), memo)
        second == ModifyTags(first.notes, PyStrVal(id), PyStrVal(tags))
    IN  [notes |-> second.notes,
         calls |-> <<[fn |-> "modify_memo", ret |-> first.ret],
                     [fn |-> "modify_tags", ret |-> second.ret]>>]

\* Menu.modify_note with the three texts read: the notes list afterwards and
\* the Notebook calls made, in order, each with the value it returned.
ModifyNote(notes, id, memo, tags) ==
    LET first == IF memo # <<>>
                 THEN ModifyMemo(notes, PyStrVal(id), memo)
                 ELSE [notes |-> notes, ret |-> FALSE]
        second == IF tags # <<>>
                  THEN ModifyTags(first.notes, PyStrVal(id), PyStrVal(tags))
                  ELSE [notes |-> first.notes, ret |-> FALSE]
    IN  [notes |-> second.notes,
         calls |->
            (IF memo # <<>>
             THEN <<[fn |-> "modify_memo", ret |-> first.ret]>> ELSE <<>>)
            \o (IF tags # <<>>
                THEN <<[fn |-> "modify_tags", ret |-> second.ret]>> ELSE <<>>)]

\* Menu() followed by run(), in a fresh process.
ShellInit ==
    /\ last_id = 0
    /\ notebooks = [b \in NotebookIds |-> <<>>]
    /\ loose = <<>>
    /\ created = <<>>
    /\ op = [name |-> "start", ret |-> None]
    /\ pc = "menu"
    /\ choice = <<>>
    /\ out = <<>>

\* The top of the loop of run: display_menu, then input.  Once MaxNotes
\* notes exist the add choice is no longer typed.
read_choice(c) ==
    /\ pc = "menu"
    /\ ChoicesGet(c) = "add_note" => last_id < MaxNotes
    /\ pc' = "dispatch"
    /\ choice' = c
    /\ out' = <<TextLine(<<"Notebook Menu">>)>>
    /\ op' = [name |-> "display_menu", ret |-> None]
    /\ UNCHANGED <<last_id, notebooks, loose, created>>

\* Mutant of invalid_choice: the else branch leaves the loop.
invalid_choice_breaks ==
    /\ pc = "dispatch"
    /\ ChoicesGet(choice) = "None"
    /\ pc' = "terminated"
    /\ out' = <<TextLine(choice \o <<" is not a valid choice">>)>>
    /\ op' = [name |-> "invalid", ret |-> None]
    /\ UNCHANGED <<last_id, notebooks, loose, created, choice>>

\* run, else branch: no handler for the choice.
invalid_choice ==
    /\ pc = "dispatch"
    /\ ChoicesGet(choice) = "None"
    /\ pc' = "menu"
    /\ out' = <<TextLine(choice \o <<" is not a valid choice">>)>>
    /\ op' = [name |-> "invalid", ret |-> None]
    /\ UNCHANGED <<last_id, notebooks, loose, created, choice>>

\* Menu.show_notes called from run, notes left at None.
show_notes ==
    /\ pc = "dispatch"
    /\ ChoicesGet(choice) = "show_notes"
    /\ pc' = "menu"
    /\ out' = ShowNotes(None, notebooks["menu"])
    /\ op' = [name |-> "show_notes", ret |-> None]
    /\ UNCHANGED <<last_id, notebooks, loose, created, choice>>

\* Menu.search_notes, with the filter text read.
search_notes(filter) ==
    /\ pc = "dispatch"
    /\ ChoicesGet(choice) = "search_notes"
    /\ pc' = "menu"
    /\ out' = ShowNotes(PyListVal(Search(notebooks["menu"], filter)),
                        notebooks["menu"])
    /\ op' = [name |-> "search_notes",
              ret |-> PyListVal(Search(notebooks["menu"], filter))]
    /\ UNCHANGED <<last_id, notebooks, loose, created, choice>>

\* Menu.add_note, with the memo text read.
add_note(memo) ==
    /\ pc = "dispatch"
    /\ ChoicesGet(choice) = "add_note"
    /\ last_id < MaxNotes
    /\ pc' = "menu"
    /\ notebooks' = [notebooks EXCEPT
           !["menu"] = Append(@, NoteInit(memo, DefaultTags, last_id).note)]
    /\ last_id' = NoteInit(memo, DefaultTags, last_id).last_id
    /\ created' = Append(created, NoteInit(memo, DefaultTags, last_id).note.id)
    /\ out' = <<TextLine(<<"Your note has been added.">>)>>
    /\ op' = [name |-> "add_note", ret |-> None]
    /\ UNCHANGED <<loose, choice>>

\* Menu.modify_note, with the id, memo and tags texts read.
modify_note(id, memo, tags) ==
    /\ pc = "dispatch"
    /\ ChoicesGet(choice) = "modify_note"
    /\ pc' = "menu"
    /\ notebooks' = [notebooks EXCEPT
           !["menu"] = ModifyNote(@, id, memo, tags).notes]
    /\ out' = <<>>
    /\ op' = [name |-> "modify_note",
              ret |-> PyListVal(
                          ModifyNote(notebooks["menu"], id, memo, tags).calls)]
    /\ UNCHANGED <<last_id, loose, created, choice>>

\* Mutant of quit: the sys.exit(0) is missing, the handler returns.
quit_returns ==
    /\ pc = "dispatch"
    /\ ChoicesGet(choice) = "quit"
    /\ pc' = "menu"
    /\ out' = <<TextLine(<<"Thank you for using your notebook today.">>)>>
    /\ op' = [name |-> "quit", ret |-> None]
    /\ UNCHANGED <<last_id, notebooks, loose, created, choice>>

\* Menu.quit: the farewell line, then sys.exit(0).
quit ==
    /\ pc = "dispatch"
    /\ ChoicesGet(choice) = "quit"
    /\ pc' = "terminated"
    /\ out' = <<TextLine(<<"Thank you for using your notebook today.">>)>>
    /\ op' = [name |-> "quit", ret |-> PyIntVal(0)]
    /\ UNCHANGED <<last_id, notebooks, loose, created, choice>>

ShellNext ==
    \/ \E c \in ChoiceInputs : read_choice(c)
    \/ invalid_choice
    \/ show_notes
    \/ \E filter \in Filters : search_notes(filter)
    \/ \E memo \in Memos : add_note(memo)
    \/ \E id \in IdTexts, memo \in Memos, tags \in TagTexts :
           modify_note(id, memo, tags)
    \/ quit

ShellSpec == ShellInit /\ [][ShellNext]_vars

\* The body of the loop of run after the choice is read: the handler the
\* choice selects, or the else branch.
Dispatch ==
    \/ invalid_choice
    \/ show_notes
    \/ \E filter \in Filters : search_notes(filter)
    \/ \E memo \in Memos : add_note(memo)
    \/ \E id \in IdTexts, memo \in Memos, tags \in TagTexts :
           modify_note(id, memo, tags)
    \/ quit

\* The shell with every prompt of a handler answered: the code between
\* reading the choice and the next display of the menu is straight-line, so
\* once the choice is read the handler runs.
FairShellSpec == ShellSpec /\ WF_vars(Dispatch)

\* The module in either of its uses: imported and called, or run as a script.
ProgramInit == Init \/ ShellInit

ProgramNext == Next \/ ShellNext

ProgramSpec == ProgramInit /\ [][ProgramNext]_vars

-----------------------------------------------------------------------------
(* Vocabulary of the properties: what it means for a text to contain       *)
(* another, and for a note_id argument to name a note's id, stated         *)
(* without the operators that model the code.                              *)

\* f is a contiguous substring of s: s = p \o f \o q for some p and q.
IsSubstring(f, s) ==
    \E i \in 0..Len(s) : \E j \in i..Len(s) : SubSeq(s, i + 1, j) = f

DigitChars == {Digits[d] : d \in 1..10}

DigitVal(c) == CHOOSE d \in 0..9 : Digits[d + 1] = c

RECURSIVE NumeralValue(_)
NumeralValue(text) ==
    IF text = <<>> THEN 0
    ELSE NumeralValue(SubSeq(text, 1, Len(text) - 1)) * 10
             + DigitVal(text[Len(text)])

\* text is the decimal numeral of n: digits only, no leading zero, value n.
TextDenotes(text, n) ==
    /\ text # <<>>
    /\ \A i \in 1..Len(text) : text[i] \in DigitChars
    /\ Len(text) > 1 => text[1] # "0"
    /\ NumeralValue(text) = n

\* note_id, an int or a text, names the id of note.
HasId(note, note_id) ==
    IF note_id.t = "int" THEN note.id = note_id.n
    ELSE TextDenotes(note_id.v, note.id)

\* Some note of the list has the id note_id names.
Exists(notes, note_id) == \E i \in 1..Len(notes) : HasId(notes[i], note_id)

-----------------------------------------------------------------------------
(* Properties *)

\* C1: the k-th note constructed in the process gets id k, whichever
\* Notebook (or none) it goes to; so the ids are distinct across all
\* Notebooks and increase with the position inside each Notebook.
IdsAreCreationOrder ==
    /\ \A k \in 1..Len(created) : created[k] = k
    /\ \A w1 \in {w \in AllNotes : Live(w)} :
           \A w2 \in {w \in AllNotes : Live(w)} :
               w1 # w2 => NoteAt(w1).id # NoteAt(w2).id
    /\ \A b \in NotebookIds : \A i \in 1..Len(notebooks[b]) :
           \A j \in 1..Len(notebooks[b]) :
               i < j => notebooks[b][i].id < notebooks[b][j].id

\* C1 witness: two notes in two different Notebooks, then a modification.
IdsAreCreationOrderWitness ==
    /\ Len(notebooks["menu"]) = 1
    /\ Len(notebooks["other"]) = 1
    /\ Len(created) = 2
    /\ op.name = "modify_memo"
    /\ op.ret = PyBoolVal(TRUE)

\* C2: within one Notebook no two notes have the same id.
NotebookIdsUnique ==
    \A b \in NotebookIds : \A i \in 1..Len(notebooks[b]) :
        \A j \in 1..Len(notebooks[b]) :
            notebooks[b][i].id = notebooks[b][j].id => i = j

\* C2 witness: a Notebook of two notes after a successful modify_tags.
NotebookIdsUniqueWitness ==
    /\ \E b \in NotebookIds : Len(notebooks[b]) = 2
    /\ op.name = "modify_tags"
    /\ op.ret = PyBoolVal(TRUE)

\* C3: on every reachable Notebook and for every id and text v,
\* modify_memo(id, v) returns True exactly when a note of the Notebook has
\* that id, and then that note's memo is v; otherwise it returns False and
\* the notes list is as it was.
ModifyMemoContract ==
    \A b \in NotebookIds, note_id \in NoteIds, v \in Memos :
        LET notes == notebooks[b]
            r == ModifyMemo(notes, note_id, v)
        IN  /\ r.ret = Exists(notes, note_id)
            /\ Len(r.notes) = Len(notes)
            /\ \A i \in 1..Len(notes) :
                   HasId(notes[i], note_id) => r.notes[i].memo = v
            /\ ~Exists(notes, note_id) => r.notes = notes

\* C3 witness: a modify_memo that returned True on a Notebook of two notes.
ModifyMemoContractWitness ==
    /\ op.name = "modify_memo"
    /\ op.ret = PyBoolVal(TRUE)
    /\ \E b \in NotebookIds : Len(notebooks[b]) = 2

\* C4: on every reachable Notebook and for every id and tags value t,
\* modify_tags(id, t) returns True exactly when a note of the Notebook has
\* that id, and then that note's tags are t; otherwise it returns False and
\* the notes list is as it was.
ModifyTagsContract ==
    \A b \in NotebookIds, note_id \in NoteIds, t \in TagValues :
        LET notes == notebooks[b]
            r == ModifyTags(notes, note_id, t)
        IN  /\ r.ret = Exists(notes, note_id)
            /\ Len(r.notes) = Len(notes)
            /\ \A i \in 1..Len(notes) :
                   HasId(notes[i], note_id) => r.notes[i].tags = t
            /\ ~Exists(notes, note_id) => r.notes = notes

\* C4 witness: a modify_tags that returned False on a Notebook holding a note.
ModifyTagsContractWitness ==
    /\ op.name = "modify_tags"
    /\ op.ret = PyBoolVal(FALSE)
    /\ \A b \in NotebookIds : Len(notebooks[b]) = 1

\* The positions of the notes of a list that match the filter.
Matching(notes, filter) == {i \in 1..Len(notes) : Match(notes[i], filter)}

\* The k-th smallest element of a set of numbers.
Nth(S, k) == CHOOSE i \in S : Cardinality({j \in S : j < i}) = k - 1

\* C5: on every reachable Notebook and for every filter f, search(f) returns
\* the notes that match f, one entry per matching note, in the order they
\* have in notes; the empty list when the Notebook is empty or nothing
\* matches.
SearchContract ==
    \A b \in NotebookIds, f \in Filters :
        LET notes == notebooks[b]
            r == Search(notes, f)
        IN  /\ Len(r) = Cardinality(Matching(notes, f))
            /\ \A k \in 1..Len(r) : r[k] = notes[Nth(Matching(notes, f), k)]
            /\ (notes = <<>> \/ Matching(notes, f) = {}) => r = <<>>

\* C5 witness: a search that returned both notes of a Notebook whose two
\* notes differ.
SearchContractWitness ==
    /\ op.name = "search"
    /\ Len(op.ret.items) = 2
    /\ \E b \in NotebookIds :
           /\ Len(notebooks[b]) = 2
           /\ notebooks[b][1].memo # notebooks[b][2].memo

\* C6: when the search of the search handler finds no note in a Notebook
\* that holds notes, the handler prints nothing and is back at the menu.
SearchNoMatchPrintsNothing ==
    (op.name = "search_notes" /\ op.ret = PyListVal(<<>>)
         /\ notebooks["menu"] # <<>>)
        => (out = <<>> /\ pc = "menu")

\* The labels of a list joined with single spaces, the form the docstring of
\* Note.__init__ gives for tags.
RECURSIVE JoinLabels(_)
JoinLabels(labels) ==
    IF labels = <<>> THEN <<>>
    ELSE IF Len(labels) = 1 THEN labels[1]
    ELSE labels[1] \o <<" ">> \o JoinLabels(Tail(labels))

\* The tags of a note as one text.
TagsText(tags) == IF tags.t = "str" THEN tags.v ELSE JoinLabels(tags.items)

MatchReflexive ==
    \A w \in AllNotes :
        Live(w) =>
            /\ Match(NoteAt(w), NoteAt(w).memo)
            /\ \A i \in 1..Len(NoteAt(w).memo) :
                   \A j \in i..Len(NoteAt(w).memo) :
                       Match(NoteAt(w), SubSeq(NoteAt(w).memo, i, j))

\* C8 witness: match returned True on the only note of the process, whose
\* memo is 'ab' and whose tags are the default.
MatchReflexiveWitness ==
    /\ op.name = "match"
    /\ op.ret = PyBoolVal(TRUE)
    /\ last_id = 1
    /\ \E w \in AllNotes :
           /\ Live(w)
           /\ NoteAt(w).memo = <<"a", "b">>
           /\ NoteAt(w).tags = DefaultTags

\* C9: in the modify handler, for an id text that names a note: an empty
\* memo text leaves the memo and a non-empty one becomes the memo; an empty
\* tags text leaves the tags and a non-empty one becomes the tags;
\* modify_memo is called exactly when the memo text is non-empty and
\* modify_tags exactly when the tags text is non-empty.
ModifyNoteFields ==
    [][op'.name = "modify_note" =>
        \A id \in IdTexts, memo \in Memos, tags \in TagTexts :
            (modify_note(id, memo, tags)
                 /\ Exists(notebooks["menu"], PyStrVal(id))) =>
                LET notes == notebooks["menu"]
                    after == notebooks'["menu"]
                    calls == op'.ret.items
                IN  /\ Len(after) = Len(notes)
                    /\ \A i \in 1..Len(notes) :
                           HasId(notes[i], PyStrVal(id)) =>
                               /\ after[i].memo =
                                      IF memo = <<>> THEN notes[i].memo
                                      ELSE memo
                               /\ after[i].tags =
                                      IF tags = <<>> THEN notes[i].tags
                                      ELSE PyStrVal(tags)
                    /\ (\E k \in 1..Len(calls) : calls[k].fn = "modify_memo")
                           <=> memo # <<>>
                    /\ (\E k \in 1..Len(calls) : calls[k].fn = "modify_tags")
                           <=> tags # <<>>]_vars

\* C9 witness: the handler ran with an empty memo text and a non-empty tags
\* text for a note that exists.
ModifyNoteFieldsWitness ==
    /\ op.name = "modify_note"
    /\ op.ret = PyListVal(<<[fn |-> "modify_tags", ret |-> TRUE]>>)
    /\ pc = "menu"

\* C10: in the modify handler, for an id text that names no note, nothing
\* changes: the notes, their number and the id counter are as before,
\* nothing is printed, and the shell is back at the menu.
ModifyNoteUnknownId ==
    [][op'.name = "modify_note" =>
        \A id \in IdTexts, memo \in Memos, tags \in TagTexts :
            (modify_note(id, memo, tags)
                 /\ ~Exists(notebooks["menu"], PyStrVal(id))) =>
                /\ notebooks' = notebooks
                /\ last_id' = last_id
                /\ created' = created
                /\ loose' = loose
                /\ out' = <<>>
                /\ pc' = "menu"]_vars

\* C10 witness: the handler ran with both texts non-empty on a Notebook that
\* holds a note, and both calls returned False.
ModifyNoteUnknownIdWitness ==
    /\ op.name = "modify_note"
    /\ op.ret = PyListVal(<<[fn |-> "modify_memo", ret |-> FALSE],
                            [fn |-> "modify_tags", ret |-> FALSE]>>)
    /\ notebooks["menu"] # <<>>
    /\ pc = "menu"

\* The five lines the menu offers.
MenuChoices == {<<"1">>, <<"2">>, <<"3">>, <<"4">>, <<"5">>}

\* What the top of the loop prints.
MenuText == <<TextLine(<<"Notebook Menu">>)>>

\* C11: when the line read at the menu is none of '1'..'5', the next step
\* prints "<line> is not a valid choice" and nothing else, runs no handler,
\* leaves every Notebook and the id counter as they were and returns to the
\* top of the loop, whose next step prints the menu and reads a choice.
InvalidChoiceReported ==
    [][/\ (pc = "dispatch" /\ choice \notin MenuChoices) =>
              /\ out' = <<TextLine(choice \o <<" is not a valid choice">>)>>
              /\ op'.name = "invalid"
              /\ notebooks' = notebooks
              /\ loose' = loose
              /\ last_id' = last_id
              /\ pc' = "menu"
       /\ (pc = "menu" /\ op.name = "invalid") =>
              (out' = MenuText /\ pc' = "dispatch")]_vars

\* C11 witness: the line '11' was reported as invalid with a note in the
\* Notebook, and the shell is back at the top of the loop.
InvalidChoiceReportedWitness ==
    /\ pc = "menu"
    /\ op.name = "invalid"
    /\ choice = <<"1", "1">>
    /\ notebooks["menu"] # <<>>

HandlerFor(c) ==
    CASE c = <<"1">> -> "show_notes"
      [] c = <<"2">> -> "search_notes"
      [] c = <<"3">> -> "add_note"
      [] c = <<"4">> -> "modify_note"
      [] c = <<"5">> -> "quit"
      [] OTHER -> "invalid"

\* C13: for every line read at the menu other than '5', with the prompts of
\* the handler answered, the handler that line selects runs and the shell is
\* eventually back at the top of the loop with that handler done; the step
\* after a choice is read is that handler and no other; and every step from
\* the top of the loop prints the menu before the choice is read.
HandlersReturnToMenu ==
    /\ \A c \in ChoiceInputs \ {<<"5">>} :
           (pc = "dispatch" /\ choice = c)
               ~> (pc = "menu" /\ op.name = HandlerFor(c))
    /\ [][/\ (pc = "dispatch" /\ choice # <<"5">>) =>
                 (pc' = "menu" /\ op'.name = HandlerFor(choice))
          /\ pc = "menu" => (out' = MenuText /\ pc' = "dispatch")]_vars

\* C13 witness: the show-all handler has run on a Notebook with a note and
\* the shell is back at the top of the loop.
HandlersReturnToMenuWitness ==
    /\ pc = "menu"
    /\ op.name = "show_notes"
    /\ choice = <<"1">>
    /\ notebooks["menu"] # <<>>

\* C14: every step of every operation, of the library and of the shell,
\* leaves each Notebook's notes list at least as long as it was, with the
\* same id at every position it already had: nothing is removed or
\* reordered, and no id changes.
NotesAppendOnly ==
    [][\A b \in NotebookIds :
           /\ Len(notebooks'[b]) >= Len(notebooks[b])
           /\ \A i \in 1..Len(notebooks[b]) :
                  notebooks'[b][i].id = notebooks[b][i].id]_vars

\* C14 witness: a second note was appended to a Notebook whose first note
\* has id 1, an empty memo and the tags 'Ab'.
NotesAppendOnlyWitness ==
    /\ op.name = "new_note"
    /\ Len(notebooks["other"]) = 2
    /\ notebooks["other"][1].tags = PyStrVal(<<"A", "b">>)
    /\ notebooks["other"][1].memo = <<>>
    /\ notebooks["other"][1].id = 1

\* Notebook b got exactly one new note, at the end, with the given memo and
\* tags and the incremented counter as id; every note already there, every
\* other Notebook and the notes held by the caller are as they were.
Appended(b, memo, tags) ==
    /\ last_id' = last_id + 1
    /\ notebooks'[b] =
           Append(notebooks[b],
                  [id |-> last_id + 1, memo |-> memo, tags |-> tags])
    /\ \A c \in NotebookIds \ {b} : notebooks'[c] = notebooks[c]
    /\ loose' = loose

\* C15: new_note(memo, tags) appends exactly one note at the end of notes,
\* with that memo, those tags and the incremented counter as id, and leaves
\* the notes already present alone; the add handler of the shell does the
\* same with the text read as memo and the empty text as tags, and confirms.
CreateNoteAppends ==
    [][/\ op'.name = "new_note" =>
              \A b \in NotebookIds, memo \in Memos, tags \in TagValues :
                  new_note(b, memo, tags) => Appended(b, memo, tags)
       /\ op'.name = "add_note" =>
              \A memo \in Memos :
                  add_note(memo) =>
                      /\ Appended("menu", memo, PyStrVal(<<>>))
                      /\ out' = <<TextLine(<<"Your note has been added.">>)>>
                      /\ pc' = "menu"]_vars

\* C15 witness: new_note put a second note, with list tags, behind a first
\* one.
CreateNoteAppendsWitness ==
    /\ op.name = "new_note"
    /\ Len(notebooks["menu"]) = 2
    /\ notebooks["menu"][2].tags = PyListVal(<< <<"a", "b">> >>)
    /\ notebooks["menu"][2].id = 2

\* The arguments _find_note is tried on: those of NoteIds, and the int 0
\* and the texts '2' and ''.
FindArgs == NoteIds \cup {PyIntVal(0), PyStrVal(<<"2">>), PyStrVal(<<>>)}

\* C16: on every reachable Notebook, _find_note(note_id) returns the first
\* note in list order whose id note_id names, as an int or as its decimal
\* text, and None when there is none (an id never assigned, '01', 'x', '');
\* the int k and the text 'k' find the same note.
FindByTextualId ==
    \A b \in NotebookIds :
        LET notes == notebooks[b]
            hits(x) == {i \in 1..Len(notes) : HasId(notes[i], x)}
        IN  /\ \A x \in FindArgs :
                   FindNote(notes, x) =
                       IF hits(x) = {} THEN None
                       ELSE notes[CHOOSE i \in hits(x) :
                                      \A j \in hits(x) : i <= j]
            /\ FindNote(notes, PyIntVal(1)) = FindNote(notes, PyStrVal(<<"1">>))
            /\ FindNote(notes, PyIntVal(2)) = FindNote(notes, PyStrVal(<<"2">>))
            /\ FindNote(notes, PyStrVal(<<"0", "1">>)) = None
            /\ FindNote(notes, PyStrVal(<<"x">>)) = None

\* C16 witness: _find_note returned the second note of a Notebook.
FindByTextualIdWitness ==
    /\ op.name = "_find_note"
    /\ \E b \in NotebookIds :
           /\ Len(notebooks[b]) = 2
           /\ op.ret = notebooks[b][2]

\* The ids of the notes that exist.
LiveIds == {NoteAt(w).id : w \in {x \in AllNotes : Live(x)}}

\* The operations that construct a Note.
Creators == {"Note", "new_note", "add_note"}

\* C17: in every reachable state the id counter equals the number of notes
\* constructed so far and the largest id of an existing note (0 when there
\* is none), and every id lies in 1..counter; a step changes the counter
\* only if it constructs a note, and then by exactly +1, so search,
\* _find_note, modify_memo, modify_tags, match and the show-all, search and
\* modify handlers leave it alone.
CounterCountsNotes ==
    /\ [](/\ last_id = Len(created)
          /\ last_id = Cardinality({w \in AllNotes : Live(w)})
          /\ LiveIds \subseteq 1..last_id
          /\ last_id = IF LiveIds = {} THEN 0
                       ELSE CHOOSE m \in LiveIds : \A k \in LiveIds : k <= m)
    /\ [][/\ op'.name \in Creators => last_id' = last_id + 1
          /\ op'.name \notin Creators => last_id' = last_id]_vars

\* C17 witness: the modify handler of the shell ran with two notes in the
\* Notebook and the counter at 2.
CounterCountsNotesWitness ==
    /\ pc = "menu"
    /\ op.name = "modify_note"
    /\ last_id = 2
    /\ Len(notebooks["menu"]) = 2

\* The notes lists before and after hold the same number of notes, with
\* the same ids at the same positions.
SameShape(before, after) ==
    /\ Len(after) = Len(before)
    /\ \A i \in 1..Len(before) : after[i].id = before[i].id

\* C18: a modify_memo that returns True changes the memo of the target note
\* and nothing else: the target keeps its tags, id and position, every other
\* note of the Notebook keeps memo, tags, id and position, and the number of
\* notes is the same; symmetrically a modify_tags that returns True changes
\* only the target's tags. A step of either method leaves the id counter,
\* the notes held outside the Notebook and the other Notebook as they were.
ModifyChangesOnlyTarget ==
    /\ [](\A b \in NotebookIds, note_id \in NoteIds :
            LET notes == notebooks[b]
            IN  /\ \A v \in Memos :
                      LET r == ModifyMemo(notes, note_id, v)
                      IN  r.ret =>
                            /\ SameShape(notes, r.notes)
                            /\ \A i \in 1..Len(notes) :
                                 /\ r.notes[i].tags = notes[i].tags
                                 /\ ~HasId(notes[i], note_id)
                                      => r.notes[i] = notes[i]
                /\ \A t \in TagValues :
                      LET r == ModifyTags(notes, note_id, t)
                      IN  r.ret =>
                            /\ SameShape(notes, r.notes)
                            /\ \A i \in 1..Len(notes) :
                                 /\ r.notes[i].memo = notes[i].memo
                                 /\ ~HasId(notes[i], note_id)
                                      => r.notes[i] = notes[i])
    /\ [][op'.name \in {"modify_memo", "modify_tags"} =>
            /\ last_id' = last_id
            /\ loose' = loose
            /\ created' = created
            /\ \E b \in NotebookIds :
                 /\ SameShape(notebooks[b], notebooks'[b])
                 /\ \A c \in NotebookIds \ {b} : notebooks'[c] = notebooks[c]]_vars

\* C18 witness: a modify_tags returned True on a Notebook of two notes that
\* now differ in both memo and tags.
ModifyChangesOnlyTargetWitness ==
    /\ op.name = "modify_tags"
    /\ op.ret = PyBoolVal(TRUE)
    /\ \E b \in NotebookIds :
         /\ Len(notebooks[b]) = 2
         /\ notebooks[b][1].memo # notebooks[b][2].memo
         /\ notebooks[b][1].tags.t # notebooks[b][2].tags.t

\* C19: the empty filter matches every note that exists, so search with the
\* empty filter returns the whole notes list of the Notebook in its order,
\* and the search handler of the shell, answered with an empty line, returns
\* all the notes of the Notebook and prints one entry for each, in order.
EmptyFilterMatchesAll ==
    /\ [](/\ \A w \in AllNotes : Live(w) => Match(NoteAt(w), <<>>)
          /\ \A b \in NotebookIds :
               /\ Search(notebooks[b], <<>>) = notebooks[b]
               /\ Matching(notebooks[b], <<>>) = 1..Len(notebooks[b]))
    /\ [][search_notes(<<>>) =>
            /\ op'.ret = PyListVal(notebooks["menu"])
            /\ out' = [i \in 1..Len(notebooks["menu"]) |->
                          NoteLine(notebooks["menu"][i])]]_vars

\* C19 witness: the search handler returned both notes of the Notebook and
\* printed two entries, the first note having an empty memo and empty tags,
\* which no filter but the empty one matches.
EmptyFilterMatchesAllWitness ==
    /\ pc = "menu"
    /\ op.name = "search_notes"
    /\ Len(notebooks["menu"]) = 2
    /\ notebooks["menu"][1].memo = <<>>
    /\ notebooks["menu"][1].tags = PyStrVal(<<>>)
    /\ op.ret = PyListVal(notebooks["menu"])
    /\ Len(out) = 2

====
